---- MODULE Spec2Model ----
(***************************************************************************)
(* Items API (src/main.rs): an axum router whose handlers each await one   *)
(* parameterized SQL statement on a shared PgPool and map the Result to an *)
(* HTTP response.  The items table, the id sequence and the reachability   *)
(* of the database are the shared state; every request is handled by its   *)
(* own task, which is suspended at the repository call until the statement *)
(* commits.                                                                *)
(***************************************************************************)
EXTENDS Integers, FiniteSets, Sequences, TLC

\* ------------------------------------------------------------------ bounds
\* Number of rows the id sequence may hand out (ids are 1..MaxId).
MaxId == 2

Ids == 1..MaxId

\* The handling tasks.  Every statement commits atomically and the claims
\* about concurrency speak of two requests racing, so two tasks produce
\* every interleaving they cover.
Tasks == {"t1", "t2"}

\* ------------------------------------------------------------------ values
\* RequestItem { name, description }: the JSON bodies clients send.
RequestItem ==
    { [name |-> "pen", description |-> "blue"],
      [name |-> "cup", description |-> "red"] }

NoPayload == [name |-> "", description |-> ""]

\* Item { id, name, description }
Item(id, name, description) ==
    [id |-> id, name |-> name, description |-> description]

\* Option<T>: None is the empty sequence, Some(x) the one-element sequence.
None == <<>>
Some(x) == <<x>>

\* Result<T, sqlx::Error>
Ok(v) == [ok |-> TRUE, val |-> v]
Err == [ok |-> FALSE, val |-> None]

\* StatusCode
CREATED == 201
OK == 200
NO_CONTENT == 204
NOT_FOUND == 404
INTERNAL_SERVER_ERROR == 500

\* ------------------------------------------------------------ state
VARIABLES
    table,    \* the rows of the items table, a set of Item records
    nextId,   \* the next value of the id column's sequence
    dbUp,     \* TRUE while statements sent through the pool succeed
    task      \* per handling task: stage, request, repository result, response

vars == <<table, nextId, dbUp, task>>

\* The database as one repository call sees it.
Db == [table |-> table, nextId |-> nextId, up |-> dbUp]

IdsOf(tbl) == { r.id : r \in tbl }
Matching(tbl, id) == { r \in tbl : r.id = id }

\* The id column's default: the database draws the id from a sequence.
NextVal(seq) == seq

\* ------------------------------------------------------- SQL statements
\* INSERT INTO items (name, description) VALUES ($1, $2)
\* RETURNING id, name, description
InsertStmtCountId(tbl, seq, name, description) ==
    LET row == Item(Cardinality(tbl) + 1, name, description)
    IN  [table |-> tbl \cup {row}, nextId |-> seq + 1, rows |-> {row}]

InsertStmtSwapped(tbl, seq, name, description) ==
    LET row == Item(NextVal(seq), description, name)
    IN  [table |-> tbl \cup {row}, nextId |-> seq + 1, rows |-> {row}]

InsertStmt(tbl, seq, name, description) ==
    LET row == Item(NextVal(seq), name, description)
    IN  [table |-> tbl \cup {row}, nextId |-> seq + 1, rows |-> {row}]

\* SELECT * FROM items
SelectAllStmt(tbl) == tbl

\* SELECT * FROM items WHERE id = $1
SelectByIdStmt(tbl, id) == Matching(tbl, id)

\* UPDATE items SET name = $1, description = $2 WHERE id = $3
\* RETURNING id, name, description
UpdateStmtNoWhere(tbl, id, name, description) ==
    LET hit == { Item(r.id, name, description) : r \in tbl }
    IN  [table |-> hit, rows |-> { r \in hit : r.id = id }]

UpdateStmtUpsert(tbl, id, name, description) ==
    LET hit == { Item(id, name, description) }
    IN  [table |-> (tbl \ Matching(tbl, id)) \cup hit, rows |-> hit]

UpdateStmt(tbl, id, name, description) ==
    LET hit == { Item(r.id, name, description) : r \in Matching(tbl, id) }
    IN  [table |-> (tbl \ Matching(tbl, id)) \cup hit, rows |-> hit]

\* DELETE FROM items WHERE id = $1
DeleteStmtNoWhere(tbl, id) ==
    [table |-> IF Matching(tbl, id) = {} THEN tbl ELSE {},
     rows_affected |-> IF Matching(tbl, id) = {} THEN 0 ELSE Cardinality(tbl)]

DeleteStmt(tbl, id) ==
    [table |-> tbl \ Matching(tbl, id),
     rows_affected |-> Cardinality(Matching(tbl, id))]

\* DELETE FROM items
DeleteAllStmtWhereFirst(tbl) ==
    [table |-> tbl \ Matching(tbl, 1),
     rows_affected |-> Cardinality(Matching(tbl, 1))]

DeleteAllStmt(tbl) ==
    [table |-> {}, rows_affected |-> Cardinality(tbl)]

\* fetch_optional: the first row of the result set, if any.
fetch_optional(rows) ==
    IF rows = {} THEN None ELSE Some(CHOOSE r \in rows : TRUE)

\* fetch_one: the first row of the result set.
fetch_one(rows) == CHOOSE r \in rows : TRUE

\* A repository call that fails (`.await?`) leaves the database as it was.
Failed(db) == [result |-> Err, table |-> db.table, nextId |-> db.nextId]

\* -------------------------------------------------- impl AppState
AppState_create_item(db, name, description) ==
    IF ~db.up THEN Failed(db)
    ELSE LET s == InsertStmt(db.table, db.nextId, name, description)
         IN  [result |-> Ok(fetch_one(s.rows)),
              table |-> s.table, nextId |-> s.nextId]

AppState_get_items(db) ==
    IF ~db.up THEN Failed(db)
    ELSE [result |-> Ok(SelectAllStmt(db.table)),
          table |-> db.table, nextId |-> db.nextId]

AppState_get_item(db, id) ==
    IF ~db.up THEN Failed(db)
    ELSE [result |-> Ok(fetch_optional(SelectByIdStmt(db.table, id))),
          table |-> db.table, nextId |-> db.nextId]

AppState_update_item(db, id, name, description) ==
    IF ~db.up THEN Failed(db)
    ELSE LET s == UpdateStmt(db.table, id, name, description)
         IN  [result |-> Ok(fetch_optional(s.rows)),
              table |-> s.table, nextId |-> db.nextId]

AppState_delete_item_AnyCount(db, id) ==
    IF ~db.up THEN Failed(db)
    ELSE LET s == DeleteStmt(db.table, id)
         IN  [result |-> Ok(s.rows_affected >= 0),
              table |-> s.table, nextId |-> db.nextId]

AppState_delete_item(db, id) ==
    IF ~db.up THEN Failed(db)
    ELSE LET s == DeleteStmt(db.table, id)
         IN  [result |-> Ok(s.rows_affected > 0),
              table |-> s.table, nextId |-> db.nextId]

AppState_delete_all_items(db) ==
    IF ~db.up THEN Failed(db)
    ELSE LET s == DeleteAllStmt(db.table)
         IN  [result |-> Ok(s.rows_affected),
              table |-> s.table, nextId |-> db.nextId]

\* ------------------------------------------------------ serialization
\* #[derive(Serialize)] writes one JSON member per field, keyed by the
\* field's own name.  A JSON object is the record of its members.
ItemJson(item) ==
    [id |-> item.id, name |-> item.name, description |-> item.description]

DeletedItemsResponse(deleted_count) == [deleted_count |-> deleted_count]

\* A response: a status and an optional JSON body.
Response(status, body) == [status |-> status, body |-> body]

\* ------------------------------------------------------------ handlers
\* What each handler answers for the Result its repository call returned.
\* None stands for a handler that panicked (`.unwrap()` on Err): the task
\* is aborted and no response is produced.
create_item_response(result) ==
    IF ~result.ok THEN None
    ELSE Some(Response(CREATED, Some(ItemJson(result.val))))

get_items_response(result) ==
    IF ~result.ok THEN None
    ELSE Some(Response(OK, Some({ ItemJson(i) : i \in result.val })))

get_item_response(result) ==
    IF ~result.ok THEN None
    ELSE IF result.val # None
         THEN Some(Response(OK, Some(ItemJson(result.val[1]))))
         ELSE Some(Response(NOT_FOUND, None))

update_item_response_NoneIsOk(result) ==
    IF ~result.ok THEN Some(Response(INTERNAL_SERVER_ERROR, None))
    ELSE IF result.val # None
         THEN Some(Response(OK, Some(ItemJson(result.val[1]))))
         ELSE Some(Response(OK, None))

update_item_response(result) ==
    IF ~result.ok THEN Some(Response(INTERNAL_SERVER_ERROR, None))
    ELSE IF result.val # None
         THEN Some(Response(OK, Some(ItemJson(result.val[1]))))
         ELSE Some(Response(NOT_FOUND, None))

delete_item_response(result) ==
    IF ~result.ok THEN Some(Response(INTERNAL_SERVER_ERROR, None))
    ELSE IF result.val
         THEN Some(Response(NO_CONTENT, None))
         ELSE Some(Response(NOT_FOUND, None))

delete_all_items_response(result) ==
    IF ~result.ok THEN Some(Response(INTERNAL_SERVER_ERROR, None))
    ELSE Some(Response(OK, Some(DeletedItemsResponse(result.val))))

\* ------------------------------------------------------------ routing
PostItems == "POST /items"
GetItems == "GET /items"
DeleteItems == "DELETE /items"
GetItemById == "GET /items/{id}"
PutItemById == "PUT /items/{id}"
DeleteItemById == "DELETE /items/{id}"

ById == { GetItemById, PutItemById, DeleteItemById }

Req(op, id, item) == [op |-> op, id |-> id, item |-> item]

\* The requests the router dispatches to the item handlers.
Requests ==
    { Req(PostItems, 0, p) : p \in RequestItem }
    \cup { Req(GetItems, 0, NoPayload), Req(DeleteItems, 0, NoPayload) }
    \cup { Req(GetItemById, id, NoPayload) : id \in Ids }
    \cup { Req(PutItemById, x[1], x[2]) : x \in Ids \X RequestItem }
    \cup { Req(DeleteItemById, id, NoPayload) : id \in Ids }

IdleTask ==
    [stage |-> "idle", req |-> Req("", 0, NoPayload),
     result |-> Err, resp |-> None, raced |-> {}]

Waiting(t) == task[t].stage = "waiting"
Finished(t) == task[t].stage \in {"done", "panicked"}
InFlight == { u \in Tasks : Waiting(u) }

\* The repository call a request's handler makes.
Call(db, req) ==
    CASE req.op = PostItems ->
           AppState_create_item(db, req.item.name, req.item.description)
      [] req.op = GetItems -> AppState_get_items(db)
      [] req.op = GetItemById -> AppState_get_item(db, req.id)
      [] req.op = PutItemById ->
           AppState_update_item(db, req.id, req.item.name, req.item.description)
      [] req.op = DeleteItemById -> AppState_delete_item(db, req.id)
      [] req.op = DeleteItems -> AppState_delete_all_items(db)

\* The awaited statement commits and the handler of task t returns: the
\* database takes the statement's effect and the task keeps the Result and
\* the response (or is aborted, when the handler panicked).
Complete(t, call, resp) ==
    /\ table' = call.table
    /\ nextId' = call.nextId
    /\ task' = [task EXCEPT ![t] =
                  [stage |-> IF resp = None THEN "panicked" ELSE "done",
                   req |-> @.req,
                   result |-> call.result,
                   resp |-> resp,
                   raced |-> InFlight \ {t}]]
    /\ UNCHANGED dbUp

Init ==
    /\ table = {}
    /\ nextId = 1
    /\ dbUp = TRUE
    /\ task = [t \in Tasks |-> IdleTask]

\* The router dispatches a request to a task, which runs its handler up to
\* the repository call.
Dispatch(t) ==
    /\ ~Waiting(t)
    /\ \E req \in Requests :
         task' = [task EXCEPT ![t] =
                    [stage |-> "waiting", req |-> req,
                     result |-> Err, resp |-> None, raced |-> {}]]
    /\ UNCHANGED <<table, nextId, dbUp>>

create_item(t) ==
    /\ Waiting(t) /\ task[t].req.op = PostItems
    /\ dbUp => nextId <= MaxId
    /\ LET call == Call(Db, task[t].req)
       IN  Complete(t, call, create_item_response(call.result))

get_items(t) ==
    /\ Waiting(t) /\ task[t].req.op = GetItems
    /\ LET call == Call(Db, task[t].req)
       IN  Complete(t, call, get_items_response(call.result))

get_item(t) ==
    /\ Waiting(t) /\ task[t].req.op = GetItemById
    /\ LET call == Call(Db, task[t].req)
       IN  Complete(t, call, get_item_response(call.result))

update_item(t) ==
    /\ Waiting(t) /\ task[t].req.op = PutItemById
    /\ LET call == Call(Db, task[t].req)
       IN  Complete(t, call, update_item_response(call.result))

delete_item(t) ==
    /\ Waiting(t) /\ task[t].req.op = DeleteItemById
    /\ LET call == Call(Db, task[t].req)
       IN  Complete(t, call, delete_item_response(call.result))

delete_all_items(t) ==
    /\ Waiting(t) /\ task[t].req.op = DeleteItems
    /\ LET call == Call(Db, task[t].req)
       IN  Complete(t, call, delete_all_items_response(call.result))

\* The connection to the database is lost, or comes back.
DbFail ==
    /\ dbUp
    /\ dbUp' = FALSE
    /\ UNCHANGED <<table, nextId, task>>

DbRecover ==
    /\ ~dbUp
    /\ dbUp' = TRUE
    /\ UNCHANGED <<table, nextId, task>>

Next ==
    \/ \E t \in Tasks : Dispatch(t)
    \/ \E t \in Tasks : create_item(t)
    \/ \E t \in Tasks : get_items(t)
    \/ \E t \in Tasks : get_item(t)
    \/ \E t \in Tasks : update_item(t)
    \/ \E t \in Tasks : delete_item(t)
    \/ \E t \in Tasks : delete_all_items(t)
    \/ DbFail
    \/ DbRecover

Spec == Init /\ [][Next]_vars

\* ================================================================ claims
\* Task t's awaited statement commits in this step.
Completes(t) == Waiting(t) /\ task'[t].stage # "waiting"

Status(t) == task[t].resp[1].status
Body(t) == task[t].resp[1].body

\* C1: a successful create(name, description) returns an Item carrying the
\* inputs, and getById on the returned id right after it returns that same
\* Item (same id, name and description).
C1Theorem ==
    [][\A t \in Tasks :
         (Completes(t) /\ task[t].req.op = PostItems /\ task'[t].result.ok) =>
            LET item == task'[t].result.val
                req == task[t].req
            IN  /\ item.name = req.item.name
                /\ item.description = req.item.description
                /\ AppState_get_item(Db', item.id).result = Ok(Some(item))
                /\ AppState_get_item(Db', item.id).table = table']_vars

C1Witness ==
    \E t1, t2 \in Tasks :
        /\ task[t1].stage = "done" /\ task[t1].req.op = PostItems
        /\ task[t2].stage = "done" /\ task[t2].req.op = GetItemById
        /\ task[t2].req.id = task[t1].result.val.id
        /\ task[t2].result = Ok(Some(task[t1].result.val))
        /\ task[t1].result.val.name = task[t1].req.item.name
        /\ task[t1].result.val.description = task[t1].req.item.description

\* C2: for an id that is not in the store, with the database reachable,
\* getById and updateById return absent and deleteById returns false; none
\* returns an error and none changes the store.
C2Theorem ==
    [][\A t \in Tasks :
         (/\ Completes(t)
          /\ task[t].req.op \in ById
          /\ task[t].req.id \notin IdsOf(table)
          /\ dbUp) =>
            /\ task'[t].result.ok
            /\ (task[t].req.op = DeleteItemById => task'[t].result.val = FALSE)
            /\ (task[t].req.op # DeleteItemById => task'[t].result.val = None)
            /\ table' = table
            /\ nextId' = nextId]_vars

C2Witness ==
    \E t1, t2 \in Tasks :
        /\ table # {}
        /\ task[t1].stage = "done" /\ task[t1].req.op = PutItemById
        /\ task[t1].req.id < nextId /\ task[t1].req.id \notin IdsOf(table)
        /\ task[t1].result = Ok(None)
        /\ task[t2].stage = "done" /\ task[t2].req.op = DeleteItemById
        /\ task[t2].req.id \notin IdsOf(table)
        /\ task[t2].result.ok /\ task[t2].result.val = FALSE

\* C3: a successful deleteAll on a store of N rows returns N, and list()
\* right after it returns the empty sequence.
C3Theorem ==
    [][\A t \in Tasks :
         (Completes(t) /\ task[t].req.op = DeleteItems /\ task'[t].result.ok) =>
            /\ task'[t].result.val = Cardinality(table)
            /\ AppState_get_items(Db').result = Ok({})]_vars

C3Witness ==
    \E t1, t2 \in Tasks :
        /\ task[t1].stage = "done" /\ task[t1].req.op = DeleteItems
        /\ task[t1].result.ok /\ task[t1].result.val >= 2
        /\ task[t2].stage = "done" /\ task[t2].req.op = GetItems
        /\ task[t1].raced = {}
        /\ task[t2].result = Ok({})
        /\ nextId > 2

\* C4: a successful updateById on an existing id replaces that row's name
\* and description with the inputs, keeps its id, returns the updated row and
\* leaves every other row and the set of ids unchanged.
C4Theorem ==
    [][\A t \in Tasks :
         (/\ Completes(t)
          /\ task[t].req.op = PutItemById
          /\ task[t].req.id \in IdsOf(table)
          /\ task'[t].result.ok) =>
            LET req == task[t].req
                new == Item(req.id, req.item.name, req.item.description)
            IN  /\ task'[t].result.val = Some(new)
                /\ Matching(table', req.id) = {new}
                /\ table' \ {new} = table \ Matching(table, req.id)
                /\ IdsOf(table') = IdsOf(table)
                /\ Cardinality(table') = Cardinality(table)]_vars

C4Witness ==
    \E t1, t2 \in Tasks :
        /\ task[t1].stage = "done" /\ task[t1].req.op = PostItems
        /\ task[t2].stage = "done" /\ task[t2].req.op = PutItemById
        /\ task[t2].req.id = task[t1].result.val.id
        /\ task[t2].req.item # task[t1].req.item
        /\ task[t2].result.ok /\ task[t2].result.val # None
        /\ task[t2].result.val[1] \in table
        /\ Cardinality(table) >= 2

\* C5: deleteById on an id in the store returns true and removes exactly
\* that row; deleteById on the same id again, with no create in between,
\* returns false and leaves the store unchanged.
C5Theorem ==
    [][\A t \in Tasks :
         (/\ Completes(t)
          /\ task[t].req.op = DeleteItemById
          /\ task[t].req.id \in IdsOf(table)
          /\ dbUp) =>
            LET id == task[t].req.id
                again == AppState_delete_item(Db', id)
            IN  /\ task'[t].result.ok /\ task'[t].result.val = TRUE
                /\ table' = table \ Matching(table, id)
                /\ Cardinality(table') = Cardinality(table) - 1
                /\ again.result.ok /\ again.result.val = FALSE
                /\ again.table = table']_vars

C5Witness ==
    \E t1, t2 \in Tasks :
        /\ task[t1].stage = "done" /\ task[t1].req.op = DeleteItemById
        /\ task[t2].stage = "done" /\ task[t2].req.op = DeleteItemById
        /\ task[t1].req.id = task[t2].req.id
        /\ task[t1].result.ok /\ task[t1].result.val = TRUE
        /\ task[t2].result.ok /\ task[t2].result.val = FALSE
        /\ table # {}

\* C6: GET /items/{id} always produces a response: 200 with the Item when
\* the repository returns a row, 404 when it returns absent and 500 when the
\* repository call fails; a database failure never aborts the task.
C6Claim ==
    \A t \in Tasks :
        (Finished(t) /\ task[t].req.op = GetItemById) =>
            /\ task[t].stage = "done"
            /\ task[t].resp # None
            /\ (~task[t].result.ok => Status(t) = INTERNAL_SERVER_ERROR)
            /\ (task[t].result.ok /\ task[t].result.val = None =>
                    Status(t) = NOT_FOUND)
            /\ (task[t].result.ok /\ task[t].result.val # None =>
                    /\ Status(t) = OK
                    /\ Body(t) = Some(ItemJson(task[t].result.val[1])))

\* C7: PUT /items/{id} answers 200 with the updated Item on success and
\* DELETE /items/{id} answers 204 with an empty body on success; both answer
\* 404 when no row matched and 500 when the repository call fails; every
\* outcome gets exactly one response.
C7Theorem ==
    \A t \in Tasks :
        /\ (Finished(t) /\ task[t].req.op = PutItemById) =>
              /\ task[t].stage = "done" /\ Len(task[t].resp) = 1
              /\ IF ~task[t].result.ok
                 THEN Status(t) = INTERNAL_SERVER_ERROR /\ Body(t) = None
                 ELSE IF task[t].result.val = None
                 THEN Status(t) = NOT_FOUND /\ Body(t) = None
                 ELSE /\ Status(t) = OK
                      /\ Body(t) = Some(ItemJson(task[t].result.val[1]))
        /\ (Finished(t) /\ task[t].req.op = DeleteItemById) =>
              /\ task[t].stage = "done" /\ Len(task[t].resp) = 1
              /\ Body(t) = None
              /\ IF ~task[t].result.ok
                 THEN Status(t) = INTERNAL_SERVER_ERROR
                 ELSE IF task[t].result.val
                 THEN Status(t) = NO_CONTENT
                 ELSE Status(t) = NOT_FOUND

C7Witness ==
    \E t1, t2 \in Tasks :
        /\ task[t1].stage = "done" /\ task[t1].req.op = PutItemById
        /\ Status(t1) = OK /\ Body(t1) # None
        /\ Body(t1)[1].name = task[t1].req.item.name
        /\ task[t2].stage = "done" /\ task[t2].req.op = DeleteItemById
        /\ Status(t2) = INTERNAL_SERVER_ERROR

\* C8: DELETE /items answers 200 with a JSON object whose member named
\* deletedCount holds the number of rows removed (0 on an empty store, never
\* 404), and answers 500 when the repository call fails.
C8Claim ==
    \A t \in Tasks :
        (Finished(t) /\ task[t].req.op = DeleteItems) =>
            /\ task[t].stage = "done"
            /\ IF ~task[t].result.ok
               THEN Status(t) = INTERNAL_SERVER_ERROR
               ELSE /\ Status(t) = OK
                    /\ Body(t) # None
                    /\ "deletedCount" \in DOMAIN Body(t)[1]
                    /\ Body(t)[1]["deletedCount"] = task[t].result.val

\* The results and the final rows of two requests whose statements commit
\* one after the other, the first one first.
Serial(db, first, second) ==
    LET a == Call(db, first)
        b == Call([table |-> a.table, nextId |-> a.nextId, up |-> db.up], second)
    IN  [first |-> a.result, second |-> b.result, table |-> b.table]

\* C9: requests handled concurrently take effect one atomic statement at a
\* time.  Two by-id requests in flight on different ids give the same results
\* and final rows in either commit order; an updateById and a deleteById in
\* flight on the same existing id end with the row removed and deleteById
\* true in both orders, updateById returning the updated row when it commits
\* first and absent (404) when the delete commits first.
C9Theorem ==
    \A t1, t2 \in InFlight :
        t1 # t2 =>
          LET r1 == task[t1].req
              r2 == task[t2].req
              ab == Serial(Db, r1, r2)
              ba == Serial(Db, r2, r1)
          IN  /\ (r1.op \in ById /\ r2.op \in ById /\ r1.id # r2.id) =>
                    /\ ab.table = ba.table
                    /\ ab.first = ba.second
                    /\ ab.second = ba.first
              /\ (/\ r1.op = PutItemById /\ r2.op = DeleteItemById
                  /\ r1.id = r2.id /\ r1.id \in IdsOf(table) /\ dbUp) =>
                    /\ ab.first =
                         Ok(Some(Item(r1.id, r1.item.name, r1.item.description)))
                    /\ ab.second.ok /\ ab.second.val = TRUE
                    /\ ba.first.ok /\ ba.first.val = TRUE
                    /\ ba.second = Ok(None)
                    /\ update_item_response(ba.second)
                         = Some(Response(NOT_FOUND, None))
                    /\ r1.id \notin IdsOf(ab.table)
                    /\ ab.table = ba.table
                    /\ ab.table = table \ Matching(table, r1.id)

C9Witness ==
    \E t1, t2 \in Tasks :
        /\ task[t1].stage = "done" /\ task[t1].req.op = PutItemById
        /\ task[t2].stage = "done" /\ task[t2].req.op = DeleteItemById
        /\ task[t1].req.id = task[t2].req.id
        /\ t1 \in task[t2].raced
        /\ Status(t2) = NO_CONTENT
        /\ Status(t1) = NOT_FOUND
        /\ table # {}

\* C10: no two rows of the store share an id, and no operation changes the
\* id of a row that stays in the store: a new id only ever comes from the
\* sequence on create, and updateById keeps the ids of the store.
UniqueIds ==
    /\ \A r1, r2 \in table : r1.id = r2.id => r1 = r2
    /\ \A r \in table : r.id < nextId

IdsKept ==
    /\ \A r \in table' :
         \/ r.id \in IdsOf(table)
         \/ r.id = nextId /\ nextId' = nextId + 1 /\ table \subseteq table'
    /\ \A t \in Tasks :
         (Completes(t) /\ task[t].req.op = PutItemById) =>
            /\ IdsOf(table') = IdsOf(table)
            /\ Cardinality(table') = Cardinality(table)

C10Theorem == []UniqueIds /\ [][IdsKept]_vars

C10Witness ==
    \E t1, t2 \in Tasks :
        /\ task[t1].stage = "done" /\ task[t1].req.op = PostItems
        /\ task[t2].stage = "done" /\ task[t2].req.op = PutItemById
        /\ task[t2].result.ok /\ task[t2].result.val # None
        /\ task[t2].result.val[1].id # task[t1].result.val.id
        /\ Cardinality(table) = MaxId
        /\ Cardinality(IdsOf(table)) = MaxId

====
